---- MODULE Spec2Model ----
(***************************************************************************)
(* Model of the script modules of this repository:                         *)
(*   BlockRayProbe  - voxel traversal of a line segment (cast)             *)
(*   SneakInput     - per-player repeated-sneak detector                   *)
(*                                                                         *)
(* World coordinates are real numbers in the source.  Here a coordinate c  *)
(* stands for the real number c / Scale, so that Math.floor is floored     *)
(* integer division and every crossing parameter t is an exact fraction.   *)
(***************************************************************************)
EXTENDS Integers, Sequences, FiniteSets, TLC

\* ---------------------------------------------------------------- bounds
\* grid resolution: coordinate c stands for c / Scale
Scale == 2
\* end points range over (2 - MaxCoord)..MaxCoord on x and y
MaxCoord == 5
\* largest maxSteps option tried
MaxSteps == 4
\* the host's tick counter runs from 0 to MaxTick
MaxTick == 3
\* presses logged in one record before further presses are left out
MaxLog == 3

\* undefined, and the two infinities of the number type
Undefined == [undefined |-> TRUE]
Infinity == [inf |-> 1]
NegInfinity == [inf |-> -1]

\* ------------------------------------------------------ BlockRayProbe state
VARIABLES
    pc,                \* "new" | "threw" | "ready" | "loop" | "done"
    probe,             \* the fields the constructor assigned (this.*)
    currentBlockX,
    currentBlockY,
    currentBlockZ,
    iteration,
    blocksIntersected, \* the list cast() returns
    queried,           \* history: the cells handed to dimension.getBlock
    exit               \* history: which way the loop was left

probeVars == <<pc, probe, currentBlockX, currentBlockY, currentBlockZ,
               iteration, blocksIntersected, queried, exit>>

\* -------------------------------------------------------- SneakInput state
VARIABLES
    config,         \* the thresholds and the event id the constructor was given
    sneakRegistry,  \* Map<player id, SneakRecord>
    currentTick,    \* host: system.currentTick
    runs,           \* host: the pending system.runTimeout callbacks
    nextRunId,      \* host: the id the next system.runTimeout returns
    events,         \* host: the script events sent, in order
    lastOp          \* history: the handler that ran last

sneakVars == <<config, sneakRegistry, currentTick, runs, nextRunId, events,
               lastOp>>

\* ------------------------------------------------------- EasyRaycast state
VARIABLES
    rayPc,          \* "new" | "cast" | "read"
    easy,           \* the fields of the instance (this.*), _result included
    rayHit,         \* host: what dimension.getBlockFromRay returned
    rayRead         \* what the hit getter (or the static cast) handed back

rayVars == <<rayPc, easy, rayHit, rayRead>>

\* const EPS = 1e-10, kept as the square root of 1/EPS: 1/EPS = EpsInvRoot^2
EpsInvRoot == 100000

Vec(a, b, c) == [x |-> a, y |-> b, z |-> c]

Abs(n) == IF n < 0 THEN -n ELSE n

\* ------------------------------------------------------------ VectorUtils
\* Math.hypot, exact on the vectors with at most one non-zero component
Hypot(v) == Abs(v.x) + Abs(v.y) + Abs(v.z)

\* VectorUtils.normalize: the zero vector stays the zero vector
Normalize(v) ==
    LET len == Hypot(v)
    IN  IF len = 0 THEN Vec(0, 0, 0)
        ELSE Vec(v.x \div len, v.y \div len, v.z \div len)

VecAdd(a, b) == Vec(a.x + b.x, a.y + b.y, a.z + b.z)

VecMultiply(v, factor) == Vec(v.x * factor, v.y * factor, v.z * factor)

\* #getRotatedDirection with yawOffset = pitchOffset = 0: cos = 1 and sin = 0,
\* so the yawed and pitched vector is the unit direction, normalized again
GetRotatedDirection(p) == Normalize(Normalize(p.direction))

\* #getEndPoint: origin + rotatedDirection * distance (distance in blocks)
GetEndPoint(p) ==
    VecAdd(p.origin, VecMultiply(GetRotatedDirection(p), p.distance * Scale))

\* ------------------------------------------------------------- the world
Dimensions == {"solid", "sparse"}

\* dimension.getBlock: a block, or undefined where nothing is loaded.
\*   "solid"  : a solid block in every cell
\*   "sparse" : nothing loaded at x <= 0, a solid block at x = 1, air beyond
GetBlock(dimension, cell) ==
    IF dimension = "solid" THEN [location |-> cell, solid |-> TRUE]
    ELSE IF cell.x <= 0 THEN Undefined
    ELSE [location |-> cell, solid |-> (cell.x = 1)]

\* ------------------------------------------------------------ constructor
ValidateMutOr(p) == p.endPoint = Undefined \/ p.direction = Undefined

\* #validateProbeRequirements: TRUE when the TypeError is thrown
ValidateThrows(p) == p.endPoint = Undefined /\ p.direction = Undefined

\* the middle of a cell (0.5 when Scale = 2)
Mid == Scale \div 2

\* origins lie in the cell (0,0,0): on a face, an edge, a corner or inside
Origins == {Vec(a, b, c) : a \in {0, Mid}, b \in {0, Mid}, c \in {0, Mid}}

EndPoints ==
    {Vec(a, b, c) : a \in (2 - MaxCoord)..MaxCoord,
                    b \in (2 - MaxCoord)..MaxCoord,
                    c \in (4 - MaxCoord)..(MaxCoord - 3)}

Directions == {Vec(0, 0, 0), Vec(2, 0, 0), Vec(0, -1, 0), Vec(0, 0, 3)}

\* the option objects tried: an end point, a direction, both, or neither
OptionSets ==
    {[direction |-> Undefined, endPoint |-> e, distance |-> 4] : e \in EndPoints}
    \cup {[direction |-> d, endPoint |-> Undefined, distance |-> k] :
             d \in Directions, k \in {1, 2}}
    \cup {[direction |-> Vec(2, 0, 0), endPoint |-> Vec(0, MaxCoord, 0), distance |-> 1],
          [direction |-> Undefined, endPoint |-> Undefined, distance |-> 4]}

Construct(dimension, origin, options, maxSteps, castThroughBlocks) ==
    /\ pc = "new"
    /\ probe' = [dimension |-> dimension, origin |-> origin,
                 direction |-> options.direction, distance |-> options.distance,
                 endPoint |-> options.endPoint, maxSteps |-> maxSteps,
                 yawOffset |-> 0, pitchOffset |-> 0,
                 castThroughBlocks |-> castThroughBlocks]
    /\ pc' = IF ValidateThrows(probe') THEN "threw" ELSE "ready"
    /\ UNCHANGED <<currentBlockX, currentBlockY, currentBlockZ, iteration,
                   blocksIntersected, queried, exit>>
    /\ UNCHANGED <<sneakVars, rayVars>>

\* ------------------------------------------------------------------ cast
\* const endPoint = this.endPoint ?? this.#getEndPoint()
CastEndPoint(p) == IF p.endPoint # Undefined THEN p.endPoint ELSE GetEndPoint(p)

DirectionX(p) == CastEndPoint(p).x - p.origin.x
DirectionY(p) == CastEndPoint(p).y - p.origin.y
DirectionZ(p) == CastEndPoint(p).z - p.origin.z

StepMutNoNegative(direction) == IF direction > 0 THEN 1 ELSE 0

\* direction > 0 ? 1 : direction < 0 ? -1 : 0
Step(direction) == IF direction > 0 THEN 1 ELSE IF direction < 0 THEN -1 ELSE 0

FloorMutCeil(c) == -((-c) \div Scale)

\* Math.floor of the coordinate c / Scale
Floor(c) == c \div Scale

EndBlockXMutCeil(p) == -((-CastEndPoint(p).x) \div Scale)

EndBlockX(p) == Floor(CastEndPoint(p).x)
EndBlockY(p) == Floor(CastEndPoint(p).y)
EndBlockZ(p) == Floor(CastEndPoint(p).z)

\* step === 1 ? current + 1 : step === -1 ? current : Infinity
\* a finite face is the fraction [n |-> face, d |-> 1]
NextFace(step, current) ==
    IF step = 1 THEN [n |-> current + 1, d |-> 1]
    ELSE IF step = -1 THEN [n |-> current, d |-> 1]
    ELSE Infinity

\* direction !== 0 ? (nextFace - start) / direction : Infinity
\* a finite quotient is the fraction [n, d] with d > 0
TToFace(direction, nextFace, start) ==
    IF direction = 0 THEN Infinity
    ELSE IF nextFace = Infinity
         THEN IF direction > 0 THEN Infinity ELSE NegInfinity
    ELSE IF direction > 0
         THEN [n |-> nextFace.n * Scale - start, d |-> direction]
         ELSE [n |-> start - nextFace.n * Scale, d |-> -direction]

IsFinite(t) == t # Infinity /\ t # NegInfinity

\* a <= b on the extended fractions
TLe(a, b) ==
    \/ a = NegInfinity
    \/ b = Infinity
    \/ IsFinite(a) /\ IsFinite(b) /\ a.n * b.d <= b.n * a.d

\* Math.min of three
Min3(a, b, c) ==
    LET ab == IF TLe(a, b) THEN a ELSE b
    IN  IF TLe(ab, c) THEN ab ELSE c

WithinEpsMutLoose(t, minT) ==
    /\ IsFinite(t) /\ IsFinite(minT)
    /\ (t.n * minT.d - minT.n * t.d) * 2 <= t.d * minT.d

WithinEpsMutStrict(t, minT) ==
    /\ IsFinite(t) /\ IsFinite(minT)
    /\ t.n * minT.d - minT.n * t.d < 0

\* t - minT <= EPS, that is (t.n*minT.d - minT.n*t.d) * 1/EPS <= t.d*minT.d
WithinEps(t, minT) ==
    /\ IsFinite(t) /\ IsFinite(minT)
    /\ t.n * minT.d - minT.n * t.d <= ((t.d * minT.d) \div EpsInvRoot) \div EpsInvRoot

AdvanceMutMinus(current, step, t, minT) ==
    IF WithinEps(t, minT) /\ step # 0 THEN current - step ELSE current

\* current += step when the axis' crossing ties with the nearest one
Advance(current, step, t, minT) ==
    IF WithinEps(t, minT) /\ step # 0 THEN current + step ELSE current

CastBegin ==
    /\ pc = "ready"
    /\ pc' = "loop"
    /\ currentBlockX' = Floor(probe.origin.x)
    /\ currentBlockY' = Floor(probe.origin.y)
    /\ currentBlockZ' = Floor(probe.origin.z)
    /\ iteration' = 0
    /\ blocksIntersected' = <<>>
    /\ queried' = <<>>
    /\ UNCHANGED <<probe, exit>>
    /\ UNCHANGED <<sneakVars, rayVars>>

LoopTestMutLe(i, maxSteps) == i <= maxSteps

\* the loop test of line 117
LoopTest(i, maxSteps) == i < maxSteps

NextIterationMutStay(i) == i

\* iteration++
NextIteration(i) == i + 1

PushMutAlways(list, currentBlock) == Append(list, currentBlock)

\* if (currentBlock) blocksIntersected.push(currentBlock)
Push(list, currentBlock) ==
    IF currentBlock # Undefined THEN Append(list, currentBlock) ELSE list

\* one pass of the while body, lines 118-138, at the cell (cx, cy, cz) with
\* the crossing parameters tx, ty, tz of the three axes
LoopBody(cell, currentBlock, stepX, stepY, stepZ, tToXFace, tToYFace, tToZFace, minT) ==
    /\ queried' = Append(queried, cell)
    /\ blocksIntersected' = Push(blocksIntersected, currentBlock)
    /\ IF /\ currentBlockX = EndBlockX(probe)
          /\ currentBlockY = EndBlockY(probe)
          /\ currentBlockZ = EndBlockZ(probe)
       THEN /\ pc' = "done"
            /\ exit' = "end"
            /\ UNCHANGED <<currentBlockX, currentBlockY, currentBlockZ, iteration>>
       ELSE IF ~IsFinite(minT)
       THEN /\ pc' = "done"
            /\ exit' = "nofinite"
            /\ UNCHANGED <<currentBlockX, currentBlockY, currentBlockZ, iteration>>
       ELSE /\ currentBlockX' = Advance(currentBlockX, stepX, tToXFace, minT)
            /\ currentBlockY' = Advance(currentBlockY, stepY, tToYFace, minT)
            /\ currentBlockZ' = Advance(currentBlockZ, stepZ, tToZFace, minT)
            /\ iteration' = NextIteration(iteration)
            /\ UNCHANGED <<pc, exit>>

\* while (iteration < this.maxSteps) { ... }: one pass.  The constants of the
\* pass are bound once each, as the code computes them once each.
CastIteration ==
    /\ pc = "loop"
    /\ LoopTest(iteration, probe.maxSteps)
    /\ \E cell \in {Vec(currentBlockX, currentBlockY, currentBlockZ)},
          dirX \in {DirectionX(probe)},
          dirY \in {DirectionY(probe)},
          dirZ \in {DirectionZ(probe)} :
       \E currentBlock \in {GetBlock(probe.dimension, cell)},
          stepX \in {Step(dirX)},
          stepY \in {Step(dirY)},
          stepZ \in {Step(dirZ)} :
       \E tToXFace \in {TToFace(dirX, NextFace(stepX, currentBlockX), probe.origin.x)},
          tToYFace \in {TToFace(dirY, NextFace(stepY, currentBlockY), probe.origin.y)},
          tToZFace \in {TToFace(dirZ, NextFace(stepZ, currentBlockZ), probe.origin.z)} :
       \E minT \in {Min3(tToXFace, tToYFace, tToZFace)} :
          LoopBody(cell, currentBlock, stepX, stepY, stepZ,
                   tToXFace, tToYFace, tToZFace, minT)
    /\ UNCHANGED probe
    /\ UNCHANGED <<sneakVars, rayVars>>

\* the loop test fails: return blocksIntersected
CastReturn ==
    /\ pc = "loop"
    /\ ~LoopTest(iteration, probe.maxSteps)
    /\ pc' = "done"
    /\ exit' = "cap"
    /\ UNCHANGED <<probe, currentBlockX, currentBlockY, currentBlockZ, iteration,
                   blocksIntersected, queried>>
    /\ UNCHANGED <<sneakVars, rayVars>>

NoProbe == [dimension |-> Undefined]

ProbeInit ==
    /\ pc = "new"
    /\ probe = NoProbe
    /\ currentBlockX = 0
    /\ currentBlockY = 0
    /\ currentBlockZ = 0
    /\ iteration = 0
    /\ blocksIntersected = <<>>
    /\ queried = <<>>
    /\ exit = "none"

\* new BlockRayProbe(dimension, origin, options), for the arguments tried
NewIn(dimensions, flags) ==
    /\ pc = "new"
    /\ \E dimension \in dimensions, origin \in Origins, options \in OptionSets,
          maxSteps \in 0..MaxSteps, castThroughBlocks \in flags :
          Construct(dimension, origin, options, maxSteps, castThroughBlocks)

New == NewIn(Dimensions, BOOLEAN)

\* a longer cast along one axis: direction east from the middle of a cell,
\* distance 5 blocks, with one step too few and with just enough
LongCasts == {[direction |-> Vec(2, 0, 0), endPoint |-> Undefined, distance |-> 5]}
NewLong ==
    /\ pc = "new"
    /\ \E dimension \in Dimensions, options \in LongCasts, maxSteps \in {5, 6} :
          Construct(dimension, Vec(Mid, Mid, Mid), options, maxSteps, FALSE)

\* castThroughBlocks left at its default, in the all-solid dimension
NewDefault == NewIn({"solid"}, {FALSE})

ProbeNext ==
    \/ New
    \/ NewLong
    \/ CastBegin
    \/ CastIteration
    \/ CastReturn

ProbeDefaultNext ==
    \/ NewDefault
    \/ CastBegin
    \/ CastIteration
    \/ CastReturn

\* ------------------------------------------------------------ SneakInput
Players == {"p1", "p2"}

\* a number held where undefined may be held too
Number(n) == [number |-> n]
IsNumber(v) == v # Undefined

\* the option objects tried (inputWindowTicks, sneakTriggerCount,
\* cooldownTicks and loggingTimeoutTicks given as plain numbers)
Options(w, c, cd, lt) ==
    [eventId |-> "djc:sneak_input_triggered", inputWindowTicks |-> w,
     sneakTriggerCount |-> c, cooldownTicks |-> cd, loggingTimeoutTicks |-> lt]
Configs == {Options(0, 2, 1, 2), Options(1, 2, 2, 1), Options(2, 1, 1, 1)}

MapDeleteMutKeep(map, key) == map

\* Map.set, Map.delete
MapSet(map, key, value) ==
    [k \in DOMAIN map \cup {key} |-> IF k = key THEN value ELSE map[k]]
MapDelete(map, key) == [k \in DOMAIN map \ {key} |-> map[k]]

\* #getRecord: the player's record, or a fresh default one
GetRecord(registry, player) ==
    IF player \in DOMAIN registry THEN registry[player]
    ELSE [timeout_id |-> Undefined, sneak_log |-> <<>>, on_cooldown |-> FALSE]

\* host: system.runTimeout(callback, delay) adds a pending run
RunTimeout(pending, id, callback, player, delay) ==
    pending \cup {[id |-> id, at |-> currentTick + delay,
                   callback |-> callback, player |-> player]}

\* host: system.clearRun(id) drops the pending run with that id
ClearRun(pending, id) == {r \in pending : r.id # id}

\* #logSneak: push the current tick on the player's log
LogSneak(registry, player) ==
    LET record == GetRecord(registry, player)
    IN  MapSet(registry, player,
               [record EXCEPT !.sneak_log = Append(@, currentTick)])

CancelPendingMutKeep(record, pending) == pending

\* if (typeof record.timeout_id === "number") system.clearRun(record.timeout_id)
CancelPending(record, pending) ==
    IF IsNumber(record.timeout_id)
    THEN ClearRun(pending, record.timeout_id.number)
    ELSE pending

IgnoresPressMutNever(record) == FALSE

\* if (on_cooldown) return
IgnoresPress(record) == record.on_cooldown

\* new SneakInput(options)
SneakNew(options) ==
    /\ config = Undefined
    /\ config' = options
    /\ sneakRegistry' = <<>>
    /\ lastOp' = [op |-> "new"]
    /\ UNCHANGED <<currentTick, runs, nextRunId, events>>
    /\ UNCHANGED <<probeVars, rayVars>>

\* #processSneak, with #logSneak and #renewLogTimeout
ProcessSneak(player) ==
    LET before == GetRecord(sneakRegistry, player)
        logged == LogSneak(sneakRegistry, player)
        record == GetRecord(logged, player)
    IN  IF IgnoresPress(before)
        THEN /\ lastOp' = [op |-> "processSneak", player |-> player]
             /\ UNCHANGED <<sneakRegistry, runs, nextRunId>>
        ELSE /\ lastOp' = [op |-> "processSneak", player |-> player]
             /\ runs' = RunTimeout(CancelPending(record, runs), nextRunId,
                                   "onTimeout", player, config.loggingTimeoutTicks)
             /\ sneakRegistry' = MapSet(logged, player,
                                    [record EXCEPT !.timeout_id = Number(nextRunId)])
             /\ nextRunId' = nextRunId + 1

\* the button events tried: <<button, newButtonState>>
ButtonInputs ==
    {<<"Sneak", "Pressed">>, <<"Sneak", "Released">>, <<"Jump", "Pressed">>}

\* the playerButtonInput subscriber of #setup
ButtonInput(player, button, newButtonState) ==
    /\ config # Undefined
    /\ \/ Len(GetRecord(sneakRegistry, player).sneak_log) < MaxLog
       \/ IgnoresPress(GetRecord(sneakRegistry, player))
    /\ IF button # "Sneak" \/ newButtonState # "Pressed"
       THEN /\ lastOp' = [op |-> "input"]
            /\ UNCHANGED <<sneakRegistry, runs, nextRunId>>
       ELSE ProcessSneak(player)
    /\ UNCHANGED <<config, currentTick, events>>
    /\ UNCHANGED <<probeVars, rayVars>>

TriggerCountMetMutAtLeast(sneakCount, trigger) == sneakCount >= trigger

\* sneakCount === this.sneakTriggerCount
TriggerCountMet(sneakCount, trigger) == sneakCount = trigger

\* #calculateTickDifference
CalculateTickDifference(registry, player) ==
    LET sneak_log == GetRecord(registry, player).sneak_log
    IN  sneak_log[Len(sneak_log)] - sneak_log[1]

\* the two tests of #onTimeout that guard system.sendScriptEvent
Triggers(registry, player) ==
    /\ TriggerCountMet(Len(GetRecord(registry, player).sneak_log),
                       config.sneakTriggerCount)
    /\ CalculateTickDifference(registry, player) <= config.inputWindowTicks

CooldownDelayMutLogging(cfg) == cfg.loggingTimeoutTicks
CooldownDelayMutNone(cfg) == 0

\* the delay #setCooldown gives system.runTimeout
CooldownDelay(cfg) == cfg.cooldownTicks

SetCooldownMutSkip(registry, player) == registry

\* #setCooldown: record.on_cooldown = true; this.sneakRegistry.set(...)
SetCooldown(registry, player) ==
    MapSet(registry, player,
           [GetRecord(registry, player) EXCEPT !.on_cooldown = TRUE])

\* #onTimeout, with #setCooldown, run by the host when the run r is due
OnTimeout(r) ==
    /\ r \in runs
    /\ r.callback = "onTimeout"
    /\ r.at <= currentTick
    /\ events' = IF Triggers(sneakRegistry, r.player)
                 THEN Append(events, [id |-> config.eventId, message |-> r.player,
                                      tick |-> currentTick])
                 ELSE events
    /\ sneakRegistry' = SetCooldown(sneakRegistry, r.player)
    /\ runs' = RunTimeout(runs \ {r}, nextRunId, "onCooldownExpire", r.player,
                          CooldownDelay(config))
    /\ nextRunId' = nextRunId + 1
    /\ lastOp' = [op |-> "onTimeout", player |-> r.player, run |-> r.id]
    /\ UNCHANGED <<config, currentTick>>
    /\ UNCHANGED <<probeVars, rayVars>>

\* #onCooldownExpire, run by the host when the run r is due
OnCooldownExpire(r) ==
    /\ r \in runs
    /\ r.callback = "onCooldownExpire"
    /\ r.at <= currentTick
    /\ sneakRegistry' = MapDelete(sneakRegistry, r.player)
    /\ runs' = runs \ {r}
    /\ lastOp' = [op |-> "onCooldownExpire", player |-> r.player, run |-> r.id]
    /\ UNCHANGED <<config, currentTick, nextRunId, events>>
    /\ UNCHANGED <<probeVars, rayVars>>

\* host: the next tick begins once every run due in this one has been run
Tick ==
    /\ config # Undefined
    /\ currentTick < MaxTick
    /\ \A r \in runs : r.at > currentTick
    /\ currentTick' = currentTick + 1
    /\ lastOp' = [op |-> "tick"]
    /\ UNCHANGED <<config, sneakRegistry, runs, nextRunId, events>>
    /\ UNCHANGED <<probeVars, rayVars>>

SneakInit ==
    /\ config = Undefined
    /\ sneakRegistry = <<>>
    /\ currentTick = 0
    /\ runs = {}
    /\ nextRunId = 1
    /\ events = <<>>
    /\ lastOp = [op |-> "none"]

SneakNext ==
    \/ \E options \in Configs : SneakNew(options)
    \/ \E player \in Players, input \in ButtonInputs :
          ButtonInput(player, input[1], input[2])
    \/ \E r \in runs : OnTimeout(r)
    \/ \E r \in runs : OnCooldownExpire(r)
    \/ Tick

\* ------------------------------------- SneakInput on an unbounded time line
\* The same handlers, for runs of any length.  The handlers read ticks only
\* as differences, run ids only as names of pending runs, and the log only
\* through its length and its first and last entry, so the state is kept
\* finite by reading ticks relative to the present (currentTick stays 0, a
\* tick ages the log and brings the runs nearer), by naming a new run with
\* the least id no pending run has, and by keeping of a log longer than MaxLog
\* its first MaxLog - 1 entries and its last.  MaxLog is above every
\* sneakTriggerCount tried, so a folded log never matches the count.

\* ticks older than this are all too old for the window
Horizon(cfg) == cfg.inputWindowTicks + cfg.loggingTimeoutTicks + 1

LiveConfigs == {Options(1, 2, 1, 2), Options(0, 1, 1, 1)}

\* a log longer than MaxLog, folded
FoldLog(log) ==
    IF Len(log) > MaxLog
    THEN Append(SubSeq(log, 1, MaxLog - 1), log[Len(log)])
    ELSE log

\* one tick later: every entry of the log is one tick older
AgeLog(log, cfg) ==
    [i \in 1..Len(log) |->
        IF log[i] - 1 < -Horizon(cfg) THEN -Horizon(cfg) ELSE log[i] - 1]

\* host: the id system.runTimeout returns next, the least one not pending
LeastFree(pending) ==
    CHOOSE i \in 1..(Cardinality(pending) + 1) :
        /\ \A r \in pending : r.id # i
        /\ \A j \in 1..(i - 1) : \E r \in pending : r.id = j

\* the playerButtonInput subscriber of #setup on a sneak press, with
\* #processSneak, #logSneak and #renewLogTimeout
LivePress(player) ==
    /\ config # Undefined
    /\ lastOp' = [op |-> "processSneak", player |-> player]
    /\ IF IgnoresPress(GetRecord(sneakRegistry, player))
       THEN UNCHANGED <<sneakRegistry, runs, nextRunId>>
       ELSE \E logged \in {LogSneak(sneakRegistry, player)} :
            \E record \in {GetRecord(logged, player)} :
            \E pending \in {RunTimeout(CancelPending(record, runs), nextRunId,
                                       "onTimeout", player,
                                       config.loggingTimeoutTicks)} :
               /\ runs' = pending
               /\ sneakRegistry' =
                     MapSet(logged, player,
                            [record EXCEPT !.timeout_id = Number(nextRunId),
                                           !.sneak_log = FoldLog(@)])
               /\ nextRunId' = LeastFree(pending)
    /\ UNCHANGED <<config, currentTick, events>>
    /\ UNCHANGED <<probeVars, rayVars>>

\* #onTimeout, with #setCooldown, run by the host when the run r is due
LiveOnTimeout(r) ==
    /\ r \in runs
    /\ r.callback = "onTimeout"
    /\ r.at <= currentTick
    /\ events' = IF Triggers(sneakRegistry, r.player)
                 THEN Append(events, [id |-> config.eventId, message |-> r.player,
                                      tick |-> currentTick])
                 ELSE events
    /\ sneakRegistry' = SetCooldown(sneakRegistry, r.player)
    /\ \E pending \in {RunTimeout(runs \ {r}, nextRunId, "onCooldownExpire",
                                   r.player, CooldownDelay(config))} :
          /\ runs' = pending
          /\ nextRunId' = LeastFree(pending)
    /\ lastOp' = [op |-> "onTimeout", player |-> r.player, run |-> r.id]
    /\ UNCHANGED <<config, currentTick>>
    /\ UNCHANGED <<probeVars, rayVars>>

\* #onCooldownExpire, run by the host when the run r is due
LiveOnCooldownExpire(r) ==
    /\ r \in runs
    /\ r.callback = "onCooldownExpire"
    /\ r.at <= currentTick
    /\ sneakRegistry' = MapDelete(sneakRegistry, r.player)
    /\ runs' = runs \ {r}
    /\ nextRunId' = LeastFree(runs \ {r})
    /\ lastOp' = [op |-> "onCooldownExpire", player |-> r.player, run |-> r.id]
    /\ UNCHANGED <<config, currentTick, events>>
    /\ UNCHANGED <<probeVars, rayVars>>

\* host: a script event sent is handed to its subscribers within the tick
LiveDeliver ==
    /\ events # <<>>
    /\ events' = Tail(events)
    /\ lastOp' = [op |-> "deliver"]
    /\ UNCHANGED <<config, sneakRegistry, currentTick, runs, nextRunId>>
    /\ UNCHANGED <<probeVars, rayVars>>

\* host: the next tick begins once every run due in this one has been run
\* and every event sent in it has been delivered
LiveTick ==
    /\ config # Undefined
    /\ \A r \in runs : r.at > currentTick
    /\ events = <<>>
    /\ runs' = {[r EXCEPT !.at = @ - 1] : r \in runs}
    /\ sneakRegistry' =
          [p \in DOMAIN sneakRegistry |->
              [sneakRegistry[p] EXCEPT !.sneak_log = AgeLog(@, config)]]
    /\ lastOp' = [op |-> "tick"]
    /\ UNCHANGED <<config, currentTick, nextRunId, events>>
    /\ UNCHANGED <<probeVars, rayVars>>

LiveTimers ==
    \/ \E r \in runs : LiveOnTimeout(r)
    \/ \E r \in runs : LiveOnCooldownExpire(r)

LiveNext ==
    \/ \E options \in LiveConfigs : SneakNew(options)
    \/ \E player \in Players : LivePress(player)
    \/ LiveTimers
    \/ LiveDeliver
    \/ LiveTick

\* ----------------------------------------------------------- EasyRaycast
\* the Direction values of the host, and other spellings of a face
Faces == {"North", "South", "West", "East", "Up", "Down",
          "south", "UP", "Sideways"}

\* String(face).toLowerCase(), on the faces tried
ToLowerCase(face) ==
    CASE face \in {"North"} -> "north"
      [] face \in {"South", "south"} -> "south"
      [] face \in {"West"} -> "west"
      [] face \in {"East"} -> "east"
      [] face \in {"Up", "UP"} -> "up"
      [] face \in {"Down"} -> "down"
      [] face \in {"Sideways"} -> "sideways"

GetFaceDataMutDownFix(faceLower) ==
    CASE faceLower = "north" -> [axis |-> "z", zeroFix |-> FALSE]
      [] faceLower = "south" -> [axis |-> "z", zeroFix |-> TRUE]
      [] faceLower = "west" -> [axis |-> "x", zeroFix |-> FALSE]
      [] faceLower = "east" -> [axis |-> "x", zeroFix |-> TRUE]
      [] faceLower = "up" -> [axis |-> "y", zeroFix |-> TRUE]
      [] faceLower = "down" -> [axis |-> "y", zeroFix |-> TRUE]
      [] OTHER -> [axis |-> "x", zeroFix |-> FALSE]

\* _getFaceData
GetFaceData(faceLower) ==
    CASE faceLower = "north" -> [axis |-> "z", zeroFix |-> FALSE]
      [] faceLower = "south" -> [axis |-> "z", zeroFix |-> TRUE]
      [] faceLower = "west" -> [axis |-> "x", zeroFix |-> FALSE]
      [] faceLower = "east" -> [axis |-> "x", zeroFix |-> TRUE]
      [] faceLower = "up" -> [axis |-> "y", zeroFix |-> TRUE]
      [] faceLower = "down" -> [axis |-> "y", zeroFix |-> FALSE]
      [] OTHER -> [axis |-> "x", zeroFix |-> FALSE]

\* if (faceData.zeroFix && faceLoc[faceData.axis] === 0) faceLoc[axis] = 1
\* (face coordinates are in units of 1 / Scale, so 1 is Scale)
ZeroFix(faceLoc, faceData) ==
    IF faceData.zeroFix /\ faceLoc[faceData.axis] = 0
    THEN [faceLoc EXCEPT ![faceData.axis] = Scale]
    ELSE faceLoc

\* _distanceBetween: Math.sqrt of the squared distance, kept as the radicand
\* (in units of 1 / Scale^2)
DistanceBetween(a, b) ==
    [sqrt |-> (a.x - b.x) * (a.x - b.x) + (a.y - b.y) * (a.y - b.y)
                 + (a.z - b.z) * (a.z - b.z)]

\* _cast, on what the host's getBlockFromRay returned
EasyCast(origin, hit) ==
    IF hit = Undefined THEN Undefined
    ELSE LET faceLoc == ZeroFix(Vec(hit.faceLocation.x, hit.faceLocation.y,
                                    hit.faceLocation.z),
                                GetFaceData(ToLowerCase(hit.face)))
             worldHitPosition ==
                 Vec(hit.block.location.x * Scale + faceLoc.x,
                     hit.block.location.y * Scale + faceLoc.y,
                     hit.block.location.z * Scale + faceLoc.z)
         IN  [block |-> hit.block, face |-> hit.face, faceLocation |-> faceLoc,
              worldHitPosition |-> worldHitPosition,
              distance |-> DistanceBetween(origin, worldHitPosition)]

\* Object.assign(target, source)
ObjectAssign(target, source) ==
    [k \in DOMAIN target \cup DOMAIN source |->
        IF k \in DOMAIN source THEN source[k] ELSE target[k]]

\* host: the results of getBlockFromRay tried: none, or a hit on a face of a
\* block next to the origin, anywhere on the face grid
RayHits ==
    {Undefined} \cup
    {[block |-> [location |-> Vec(bx, by, 0)], face |-> face,
      faceLocation |-> Vec(fx, fy, fz)] :
        bx \in {-1, 0}, by \in {-1, 1}, face \in Faces,
        fx \in 0..Scale, fy \in 0..Scale, fz \in 0..Scale}

RayOptions == {[maxDistance |-> 10], [includePassableBlocks |-> TRUE]}

\* new EasyRaycast(dimension, origin, direction, options)
EasyNew(origin, direction, options, hit) ==
    /\ rayPc = "new"
    /\ rayPc' = "cast"
    /\ rayHit' = hit
    /\ easy' = [origin |-> origin, direction |-> direction,
                options |-> ObjectAssign([includePassableBlocks |-> FALSE,
                                          maxDistance |-> 100], options),
                _result |-> EasyCast(origin, hit)]
    /\ UNCHANGED rayRead
    /\ UNCHANGED <<probeVars, sneakVars>>

\* get hit(), also what the static cast returns
GetHit ==
    /\ rayPc = "cast"
    /\ rayPc' = "read"
    /\ rayRead' = easy._result
    /\ UNCHANGED <<easy, rayHit>>
    /\ UNCHANGED <<probeVars, sneakVars>>

RayInit ==
    /\ rayPc = "new"
    /\ easy = Undefined
    /\ rayHit = Undefined
    /\ rayRead = Undefined

RayNew ==
    /\ rayPc = "new"
    /\ \E origin \in {Vec(Mid, Mid, Mid)}, direction \in {Vec(1, 0, 0)},
          options \in RayOptions, hit \in RayHits :
          EasyNew(origin, direction, options, hit)

RayNext ==
    \/ RayNew
    \/ GetHit

vars == <<probeVars, sneakVars, rayVars>>

Init == ProbeInit /\ SneakInit /\ RayInit

ProbeSpec == Init /\ [][ProbeNext]_vars

\* cast() is synchronous: once called, it runs on until it returns
ProbeLive ==
    /\ Init
    /\ [][ProbeDefaultNext]_vars
    /\ WF_vars(CastIteration \/ CastReturn)

SneakSpec == Init /\ [][SneakNext]_vars

RaySpec == Init /\ [][RayNext]_vars

\* ticks keep advancing, due timers fire, events sent are delivered
SneakLive ==
    /\ Init
    /\ [][LiveNext]_vars
    /\ WF_vars(LiveTick)
    /\ WF_vars(LiveTimers)
    /\ WF_vars(LiveDeliver)

\* ------------------------------------------------- BlockRayProbe: claims
OriginCell(p) == Vec(Floor(p.origin.x), Floor(p.origin.y), Floor(p.origin.z))
EndCell(p) == Vec(EndBlockX(p), EndBlockY(p), EndBlockZ(p))
CurrentCell == Vec(currentBlockX, currentBlockY, currentBlockZ)
Casting == pc \in {"loop", "done"}

\* number of axes on which two cells differ, and the largest difference
AxesChanged(a, b) ==
    (IF a.x # b.x THEN 1 ELSE 0) + (IF a.y # b.y THEN 1 ELSE 0)
        + (IF a.z # b.z THEN 1 ELSE 0)
MaxChange(a, b) ==
    LET dx == Abs(a.x - b.x)
        dy == Abs(a.y - b.y)
        dz == Abs(a.z - b.z)
        m == IF dx >= dy THEN dx ELSE dy
    IN  IF m >= dz THEN m ELSE dz

\* C1: cast() always terminates: every pass of the loop either leaves it or
\* raises iteration by one towards maxSteps, and a cast in its loop leads to
\* a finished cast that left through one of the three exits.
CastTerminates ==
    /\ [][pc = "loop" =>
             \/ pc' = "done" /\ exit' \in {"end", "cap", "nofinite"}
             \/ pc' = "loop" /\ iteration' = iteration + 1
                             /\ iteration' <= probe.maxSteps]_vars
    /\ (pc = "loop") ~> (pc = "done")
CastTerminatesWitness ==
    pc = "done" /\ exit = "end" /\ Len(queried) >= 3

\* C2: the cells visited, the getBlock queries and the returned list never
\* exceed maxSteps; leaving by the cap returns what was collected, after
\* exactly maxSteps cells.
VisitedAtMostMaxSteps ==
    Casting =>
        /\ Len(queried) <= probe.maxSteps
        /\ Len(blocksIntersected) <= Len(queried)
        /\ exit = "cap" => (pc = "done" /\ Len(queried) = probe.maxSteps)
VisitedAtMostMaxStepsWitness ==
    /\ pc = "done" /\ exit = "cap"
    /\ probe.maxSteps >= 2
    /\ Len(blocksIntersected) = probe.maxSteps

\* C3: with castThroughBlocks false, a solid block in the second visited
\* cell ends the cast there: two cells in the result, no third query.
StopsAtFirstBlocker ==
    (/\ Casting
     /\ ~probe.castThroughBlocks
     /\ Len(queried) >= 2
     /\ GetBlock(probe.dimension, queried[1]) # Undefined
     /\ GetBlock(probe.dimension, queried[2]) # Undefined
     /\ GetBlock(probe.dimension, queried[2]).solid)
        => Len(queried) = 2 /\ Len(blocksIntersected) = 2

\* C4 as stated: consecutive visited cells differ by one unit on exactly one
\* axis, from the origin's cell to the end point's cell unless the cap is hit.
SixConnectedPath ==
    Casting =>
        /\ \A i \in 1..(Len(queried) - 1) :
              AxesChanged(queried[i], queried[i + 1]) = 1
              /\ MaxChange(queried[i], queried[i + 1]) = 1
        /\ Len(queried) >= 1 => queried[1] = OriginCell(probe)
        /\ (pc = "done" /\ exit # "cap") => queried[Len(queried)] = EndCell(probe)

\* C4 amended: consecutive visited cells differ by one unit on at least one
\* axis and by at most one unit on every axis, from the origin's cell to the
\* end point's cell unless the cap is hit.
ConnectedPath ==
    Casting =>
        /\ \A i \in 1..(Len(queried) - 1) :
              AxesChanged(queried[i], queried[i + 1]) >= 1
              /\ MaxChange(queried[i], queried[i + 1]) = 1
        /\ Len(queried) >= 1 => queried[1] = OriginCell(probe)
        /\ (pc = "done" /\ exit # "cap") => queried[Len(queried)] = EndCell(probe)
ConnectedPathWitness ==
    /\ pc = "done" /\ exit = "end"
    /\ Len(queried) >= 3
    /\ AxesChanged(queried[1], queried[2]) = 2
    /\ AxesChanged(queried[2], queried[3]) = 1

\* the crossing parameter of an axis as the fraction num/den, den > 0: the
\* segment origin + t * (end - origin) meets the face the axis leaves through
CrossNum(dir, current, start) ==
    IF dir > 0 THEN (current + 1) * Scale - start ELSE start - current * Scale
CrossDen(dir) == Abs(dir)
\* axis a crosses no later than axis b (both moving)
CrossesNoLater(da, ca, sa, db, cb, sb) ==
    CrossNum(da, ca, sa) * CrossDen(db) <= CrossNum(db, cb, sb) * CrossDen(da)
\* a moving axis ties with the minimum: no moving axis crosses strictly sooner
TiesForFirst(da, ca, sa, db, cb, sb, dc, cc, sc) ==
    /\ da # 0
    /\ db # 0 => CrossesNoLater(da, ca, sa, db, cb, sb)
    /\ dc # 0 => CrossesNoLater(da, ca, sa, dc, cc, sc)

\* C5: in every pass that stays in the loop, an axis advances (by its step
\* direction) exactly when it is moving and its crossing ties with the
\* earliest crossing; an axis-aligned segment changes one coordinate per
\* pass; the corner segment (0.5,0.5,0.5)->(2.5,2.5,0.5) visits
\* (0,0,0),(1,1,0),(2,2,0).
AdvancesExactlyTiedAxes ==
    [][(pc = "loop" /\ pc' = "loop") =>
        LET dx == DirectionX(probe)
            dy == DirectionY(probe)
            dz == DirectionZ(probe)
            ox == probe.origin.x
            oy == probe.origin.y
            oz == probe.origin.z
            tieX == TiesForFirst(dx, currentBlockX, ox, dy, currentBlockY, oy, dz, currentBlockZ, oz)
            tieY == TiesForFirst(dy, currentBlockY, oy, dx, currentBlockX, ox, dz, currentBlockZ, oz)
            tieZ == TiesForFirst(dz, currentBlockZ, oz, dx, currentBlockX, ox, dy, currentBlockY, oy)
        IN  /\ currentBlockX' = currentBlockX + (IF tieX THEN Step(dx) ELSE 0)
            /\ currentBlockY' = currentBlockY + (IF tieY THEN Step(dy) ELSE 0)
            /\ currentBlockZ' = currentBlockZ + (IF tieZ THEN Step(dz) ELSE 0)
            /\ AxesChanged(Vec(dx, dy, dz), Vec(0, 0, 0)) = 1
                  => AxesChanged(CurrentCell, CurrentCell') = 1
            /\ (/\ probe.origin = Vec(Mid, Mid, Mid)
                /\ CastEndPoint(probe) = Vec(2 * Scale + Mid, 2 * Scale + Mid, Mid)
                /\ probe.maxSteps >= 3)
                  => CurrentCell' \in {Vec(1, 1, 0), Vec(2, 2, 0)}]_vars
AdvancesExactlyTiedAxesWitness ==
    /\ pc = "done"
    /\ probe.origin = Vec(Mid, Mid, Mid)
    /\ probe.endPoint = Vec(2 * Scale + Mid, 2 * Scale + Mid, Mid)
    /\ queried = <<Vec(0, 0, 0), Vec(1, 1, 0), Vec(2, 2, 0)>>

\* C6: construction throws exactly when neither direction nor endPoint is
\* given, and no cast ever runs on a probe with neither.
ThrowsIffNeitherGiven ==
    /\ pc = "threw" <=>
          (probe # NoProbe /\ probe.direction = Undefined /\ probe.endPoint = Undefined)
    /\ (pc \in {"ready", "loop", "done"}) =>
          (probe.direction # Undefined \/ probe.endPoint # Undefined)
ThrowsIffNeitherGivenWitness ==
    /\ pc = "threw"
    /\ probe.direction = Undefined
    /\ probe.endPoint = Undefined

\* the i-th cell of the straight run from the origin's cell to the end cell
Towards(a, b) == IF b > a THEN 1 ELSE IF b < a THEN -1 ELSE 0
StraightCell(p, i) ==
    LET o == OriginCell(p)
        e == EndCell(p)
    IN  Vec(o.x + (i - 1) * Towards(o.x, e.x),
            o.y + (i - 1) * Towards(o.y, e.y),
            o.z + (i - 1) * Towards(o.z, e.z))
SingleAxis(p) ==
    AxesChanged(Vec(DirectionX(p), DirectionY(p), DirectionZ(p)), Vec(0, 0, 0)) = 1
\* the number of cells from the origin's cell to the end cell on a straight run
CellsBetween(p) == MaxChange(OriginCell(p), EndCell(p)) + 1

\* C11: a cast along a single axis visits the consecutive cells from the
\* origin's cell towards the end cell, in order and each once; with maxSteps
\* at least the number of those cells it visits all of them and leaves at the
\* end cell.
AxisAlignedInOrder ==
    (Casting /\ SingleAxis(probe)) =>
        /\ Len(queried) <= CellsBetween(probe)
        /\ \A i \in 1..Len(queried) : queried[i] = StraightCell(probe, i)
        /\ (pc = "done" /\ probe.maxSteps >= CellsBetween(probe)) =>
              /\ Len(queried) = CellsBetween(probe)
              /\ queried[Len(queried)] = EndCell(probe)
              /\ exit = "end"
AxisAlignedInOrderWitness ==
    /\ pc = "done"
    /\ probe.origin = Vec(Mid, Mid, Mid)
    /\ CastEndPoint(probe) = Vec(5 * Scale + Mid, Mid, Mid)
    /\ queried = <<Vec(0, 0, 0), Vec(1, 0, 0), Vec(2, 0, 0),
                   Vec(3, 0, 0), Vec(4, 0, 0), Vec(5, 0, 0)>>

\* the cell holds the point: cell <= coordinate < cell + 1 on every axis
CellContains(cell, point) ==
    /\ cell.x * Scale <= point.x /\ point.x < (cell.x + 1) * Scale
    /\ cell.y * Scale <= point.y /\ point.y < (cell.y + 1) * Scale
    /\ cell.z * Scale <= point.z /\ point.z < (cell.z + 1) * Scale
Degenerate(p) == CastEndPoint(p) = p.origin

\* C12: when the end point has the origin's coordinates (given so, or derived
\* from a zero direction vector) and maxSteps >= 1, cast() visits exactly one
\* cell, the one holding the point, and returns exactly that cell's content
\* when the world returns content for it.
DegenerateVisitsOneCell ==
    (Casting /\ Degenerate(probe)) =>
        /\ Len(queried) <= 1
        /\ (pc = "done" /\ probe.maxSteps >= 1) =>
              /\ Len(queried) = 1
              /\ CellContains(queried[1], probe.origin)
              /\ GetBlock(probe.dimension, queried[1]) # Undefined =>
                    blocksIntersected = <<GetBlock(probe.dimension, queried[1])>>
DegenerateVisitsOneCellWitness ==
    /\ pc = "done"
    /\ probe.direction = Vec(0, 0, 0)
    /\ probe.endPoint = Undefined
    /\ probe.origin = Vec(Mid, 0, Mid)
    /\ probe.maxSteps >= 2
    /\ queried = <<Vec(0, 0, 0)>>
    /\ Len(blocksIntersected) = 1

NoContent(cell) == GetBlock(probe.dimension, cell) = Undefined

\* C13 as stated: an empty result means that the only query made was the
\* first one and that it returned no content.
EmptyOnlyIfStoppedAtFirst ==
    (pc = "done" /\ probe.maxSteps >= 1 /\ blocksIntersected = <<>>) =>
        Len(queried) = 1 /\ NoContent(queried[1])

\* C13 amended: the result is empty exactly when no query of the traversal
\* returned content, the first one included, however many cells were visited.
EmptyIffNoContent ==
    pc = "done" =>
        /\ blocksIntersected = <<>> <=>
              \A i \in 1..Len(queried) : NoContent(queried[i])
        /\ (probe.maxSteps >= 1 /\ blocksIntersected = <<>>) =>
              Len(queried) >= 1 /\ NoContent(queried[1])
EmptyIffNoContentWitness ==
    /\ pc = "done"
    /\ exit = "end"
    /\ Len(queried) >= 3
    /\ blocksIntersected = <<>>

\* C14 as stated: with the end point at the origin and maxSteps >= 1, the
\* cast leaves through the test of the minimum t not being finite, after at
\* most the origin's cell.
DegenerateLeavesByNoFinite ==
    (pc = "done" /\ Degenerate(probe) /\ probe.maxSteps >= 1) =>
        /\ exit = "nofinite"
        /\ Len(queried) <= 1

\* C14 amended: with the end point at the origin the cast leaves through the
\* end-cell test of its first pass (through the cap when maxSteps is 0),
\* never through the test of the minimum t, after at most the origin's cell.
DegenerateLeavesByEndCell ==
    (Casting /\ Degenerate(probe)) =>
        /\ Len(queried) <= 1
        /\ \A i \in 1..Len(queried) : queried[i] = OriginCell(probe)
        /\ pc = "done" =>
              /\ exit = (IF probe.maxSteps >= 1 THEN "end" ELSE "cap")
              /\ Len(queried) = (IF probe.maxSteps >= 1 THEN 1 ELSE 0)
DegenerateLeavesByEndCellWitness ==
    /\ pc = "done"
    /\ exit = "end"
    /\ probe.endPoint = probe.origin
    /\ probe.origin = Vec(Mid, Mid, 0)
    /\ queried = <<Vec(0, 0, 0)>>

\* v lies between a and b, whichever is the smaller
Between(v, a, b) == (a <= v /\ v <= b) \/ (b <= v /\ v <= a)
InBox(cell, p) ==
    /\ Between(cell.x, OriginCell(p).x, EndCell(p).x)
    /\ Between(cell.y, OriginCell(p).y, EndCell(p).y)
    /\ Between(cell.z, OriginCell(p).z, EndCell(p).z)

\* C16: every cell visited lies in the box spanned by the origin's cell and
\* the end point's cell; no axis steps past the end cell's coordinate.
VisitedInsideBox ==
    Casting => \A i \in 1..Len(queried) : InBox(queried[i], probe)

Manhattan(a, b) == Abs(a.x - b.x) + Abs(a.y - b.y) + Abs(a.z - b.z)

\* C17: with maxSteps greater than the Manhattan distance between the
\* origin's cell and the end point's cell, the cast leaves because the
\* current cell is the end cell, so the last cell visited is the end cell.
StopsAtEndCell ==
    (/\ pc = "done"
     /\ probe.maxSteps > Manhattan(OriginCell(probe), EndCell(probe))) =>
        /\ exit = "end"
        /\ queried[Len(queried)] = EndCell(probe)

\* a coordinate of the current cell stays or moves one cell the way its axis
\* of the segment points
MovesAlong(before, after, start, end) ==
    after = before \/ after = before + Towards(start, end)

\* C18: in every pass that stays in the loop each coordinate of the current
\* cell stays or moves one cell in its axis's direction (stays when the axis
\* does not move) and at least one coordinate moves; no cell is queried twice.
MovesForwardNoRevisit ==
    [][(pc = "loop" /\ pc' = "loop") =>
        /\ MovesAlong(currentBlockX, currentBlockX', probe.origin.x, CastEndPoint(probe).x)
        /\ MovesAlong(currentBlockY, currentBlockY', probe.origin.y, CastEndPoint(probe).y)
        /\ MovesAlong(currentBlockZ, currentBlockZ', probe.origin.z, CastEndPoint(probe).z)
        /\ CurrentCell' # CurrentCell
        /\ \A i \in 1..Len(queried') : \A j \in 1..Len(queried') :
              i # j => queried'[i] # queried'[j]
        /\ \A i \in 1..Len(queried') : queried'[i] # CurrentCell']_vars
MovesForwardNoRevisitWitness ==
    /\ pc = "done"
    /\ DirectionX(probe) > 0
    /\ DirectionY(probe) < 0
    /\ DirectionZ(probe) = 0
    /\ Len(queried) >= 4
    /\ queried[4].x > queried[1].x
    /\ queried[4].y < queried[1].y
    /\ queried[4].z = queried[1].z

\* ---------------------------------------------------- EasyRaycast: claims
\* the faces whose own axis gets a 0 replaced with 1, in any spelling tried
FixesZero(face, axis) ==
    \/ face \in {"South", "south"} /\ axis = "z"
    \/ face \in {"East"} /\ axis = "x"
    \/ face \in {"Up", "UP"} /\ axis = "y"

\* C15: on a hit, worldHitPosition is the block location plus the face
\* coordinate, where a 0 on the own axis of south (z), east (x) and up (y) is
\* replaced with 1 and every other coordinate is used as it is, for north,
\* west, down and an unrecognised face too; without a hit the result is
\* undefined.
HitPositionZeroFix ==
    rayPc # "new" =>
        /\ rayPc = "read" => rayRead = easy._result
        /\ IF rayHit = Undefined THEN easy._result = Undefined
           ELSE \A axis \in {"x", "y", "z"} :
                  LET coordinate == rayHit.faceLocation[axis]
                      adjusted == IF FixesZero(rayHit.face, axis) /\ coordinate = 0
                                  THEN Scale ELSE coordinate
                  IN  /\ easy._result # Undefined
                      /\ easy._result.worldHitPosition[axis] =
                            rayHit.block.location[axis] * Scale + adjusted
HitPositionZeroFixWitness ==
    /\ rayPc = "read"
    /\ rayHit # Undefined
    /\ rayHit.face = "South"
    /\ rayHit.block.location = Vec(-1, 1, 0)
    /\ rayHit.faceLocation = Vec(0, Scale, 0)
    /\ rayRead.worldHitPosition = Vec(-Scale, 2 * Scale, Scale)

\* ---------------------------------------------------- SneakInput: claims
\* the handler that ran in the step, and for whom
Ran(op, player) == lastOp'.op = op /\ lastOp'.player = player
HasRecord(player) == player \in DOMAIN sneakRegistry
OnCooldown(player) == HasRecord(player) /\ sneakRegistry[player].on_cooldown
PendingChecks(pending, player) ==
    {r \in pending : r.callback = "onTimeout" /\ r.player = player}
PendingFor(pending, player) == {r \in pending : r.player = player}

\* C7: when a player's delayed check fires, the event with the player's id is
\* sent exactly when the log holds sneakTriggerCount presses and its last
\* tick minus its first is at most inputWindowTicks; otherwise none is sent.
EmitsIffPatternMatches ==
    [][\A p \in Players : (Ran("onTimeout", p) /\ HasRecord(p)) =>
        LET log == sneakRegistry[p].sneak_log
            matches == /\ Len(log) = config.sneakTriggerCount
                       /\ log[Len(log)] - log[1] <= config.inputWindowTicks
        IN  IF matches
            THEN events' = Append(events, [id |-> config.eventId, message |-> p,
                                           tick |-> currentTick])
            ELSE events' = events]_vars
EmitsIffPatternMatchesWitness ==
    \E p \in Players :
        /\ lastOp.op = "onTimeout" /\ lastOp.player = p
        /\ config.sneakTriggerCount = 2 /\ config.inputWindowTicks = 1
        /\ Len(sneakRegistry[p].sneak_log) = 2
        /\ sneakRegistry[p].sneak_log[2] - sneakRegistry[p].sneak_log[1] = 1
        /\ Len(events) = 1 /\ events[1].message = p

\* C8: a press by a player not on cooldown appends the current tick to the
\* player's log and leaves exactly one pending check for the player, the new
\* one, due loggingTimeoutTicks later; no player ever has two pending checks;
\* the check that fires is the one scheduled last, never a cancelled one.
PressReschedulesSingleCheck ==
    [][/\ \A p \in Players : (Ran("processSneak", p) /\ ~OnCooldown(p)) =>
            /\ sneakRegistry'[p].sneak_log =
                  Append(IF HasRecord(p) THEN sneakRegistry[p].sneak_log ELSE <<>>,
                         currentTick)
            /\ PendingChecks(runs', p) =
                  {[id |-> nextRunId, at |-> currentTick + config.loggingTimeoutTicks,
                    callback |-> "onTimeout", player |-> p]}
            /\ sneakRegistry'[p].timeout_id = Number(nextRunId)
            /\ runs' \ PendingChecks(runs', p) = runs \ PendingChecks(runs, p)
       /\ \A p \in Players : Cardinality(PendingChecks(runs', p)) <= 1
       /\ \A p \in Players : Ran("onTimeout", p) =>
            /\ HasRecord(p)
            /\ sneakRegistry[p].timeout_id = Number(lastOp'.run)]_vars
PressReschedulesSingleCheckWitness ==
    \E p \in Players :
        /\ lastOp.op = "processSneak" /\ lastOp.player = p
        /\ Len(sneakRegistry[p].sneak_log) = 2
        /\ sneakRegistry[p].sneak_log[1] < sneakRegistry[p].sneak_log[2]
        /\ Cardinality(PendingChecks(runs, p)) = 1
        /\ \A r \in PendingChecks(runs, p) :
              r.id = sneakRegistry[p].timeout_id.number /\ r.id >= 2

\* C9: a press by a player on cooldown changes nothing: the registry, the
\* pending timers and the events sent stay as they were.
PressOnCooldownIgnored ==
    [][\A p \in Players : (Ran("processSneak", p) /\ OnCooldown(p)) =>
          UNCHANGED <<config, sneakRegistry, currentTick, runs, nextRunId, events>>]_vars
PressOnCooldownIgnoredWitness ==
    /\ lastOp.op = "processSneak"
    /\ lastOp.player \in DOMAIN sneakRegistry
    /\ sneakRegistry[lastOp.player].on_cooldown

\* C10: a check that fires puts the player on cooldown, event or no event,
\* with the expiry as the player's only timer, due cooldownTicks later; the
\* expiry runs on its due tick and removes the record; a press by a player
\* without a record starts a log holding that press alone.
CooldownThenDiscard ==
    [][/\ \A p \in Players : Ran("onTimeout", p) =>
            /\ p \in DOMAIN sneakRegistry'
            /\ sneakRegistry'[p].on_cooldown
            /\ PendingFor(runs', p) =
                  {[id |-> nextRunId, at |-> currentTick + config.cooldownTicks,
                    callback |-> "onCooldownExpire", player |-> p]}
       /\ \A p \in Players : Ran("onCooldownExpire", p) =>
            /\ OnCooldown(p)
            /\ p \notin DOMAIN sneakRegistry'
            /\ \E r \in runs : r.id = lastOp'.run /\ r.at = currentTick
            /\ PendingFor(runs', p) = {}
       /\ \A p \in Players : (Ran("processSneak", p) /\ ~HasRecord(p)) =>
            /\ sneakRegistry'[p].sneak_log = <<currentTick>>
            /\ ~sneakRegistry'[p].on_cooldown
       /\ \A p \in DOMAIN sneakRegistry' : sneakRegistry'[p].on_cooldown =>
            \E r \in runs' : /\ r.callback = "onCooldownExpire"
                             /\ r.player = p
                             /\ r.at >= currentTick']_vars
CooldownThenDiscardWitness ==
    \E p \in Players :
        /\ lastOp.op = "processSneak" /\ lastOp.player = p
        /\ sneakRegistry[p].sneak_log = <<currentTick>>
        /\ \E i \in 1..Len(events) : events[i].message = p
        /\ \E q \in Players : q # p /\ q \in DOMAIN sneakRegistry
                                    /\ sneakRegistry[q].on_cooldown
                                    /\ (\A i \in 1..Len(events) : events[i].message # q)

\* C19: a player has a record exactly when a timer is pending for the
\* player, and then exactly one: the delayed check when the record is not on
\* cooldown, the cooldown expiry when it is; a player on cooldown has no
\* delayed check pending.
RecordIffOneTimer ==
    \A p \in Players :
        /\ HasRecord(p) <=> PendingFor(runs, p) # {}
        /\ HasRecord(p) =>
              /\ Cardinality(PendingFor(runs, p)) = 1
              /\ \A r \in PendingFor(runs, p) :
                    r.callback = (IF sneakRegistry[p].on_cooldown
                                  THEN "onCooldownExpire" ELSE "onTimeout")
        /\ OnCooldown(p) => PendingChecks(runs, p) = {}
RecordIffOneTimerWitness ==
    /\ OnCooldown("p1")
    /\ \E r \in runs : r.player = "p1" /\ r.callback = "onCooldownExpire"
    /\ HasRecord("p2") /\ ~OnCooldown("p2")
    /\ \E r \in runs : r.player = "p2" /\ r.callback = "onTimeout"
    /\ ~(\E r \in runs : r.player = "p1" /\ r.callback = "onTimeout")

\* the step sent an event for the player
Emitted(p) ==
    /\ Len(events') = Len(events) + 1
    /\ events'[Len(events')].message = p

\* C20: an event for a player is sent only by the step that puts the
\* player's record on cooldown, a record leaves cooldown only by being
\* removed, so a record sees at most one event; two events for the same
\* player are at least cooldownTicks + loggingTimeoutTicks ticks apart.
OneEventPerRecord ==
    /\ [][/\ Len(events') \in {Len(events), Len(events) + 1}
          /\ \A p \in Players :
                /\ Emitted(p) =>
                      /\ HasRecord(p) /\ ~sneakRegistry[p].on_cooldown
                      /\ p \in DOMAIN sneakRegistry' /\ sneakRegistry'[p].on_cooldown
                /\ (OnCooldown(p) /\ p \in DOMAIN sneakRegistry') =>
                      /\ sneakRegistry'[p].on_cooldown
                      /\ ~Emitted(p)]_vars
    /\ [](\A i \in 1..Len(events) : \A j \in 1..Len(events) :
            (i < j /\ events[i].message = events[j].message) =>
                events[j].tick - events[i].tick >=
                    config.cooldownTicks + config.loggingTimeoutTicks)
OneEventPerRecordWitness ==
    /\ Len(events) >= 3
    /\ \E i \in 1..Len(events) : \E j \in 1..Len(events) :
          /\ i < j
          /\ events[i].message = events[j].message
          /\ events[j].tick - events[i].tick =
                config.cooldownTicks + config.loggingTimeoutTicks
    /\ \E i \in 1..Len(events) : events[i].message # events[1].message

\* the step logged a press of the player
LoggedPress(p) == Ran("processSneak", p) /\ ~OnCooldown(p)

\* C21 as stated: whatever presses the player makes, a record in the
\* registry (a logged press) leads to the delayed check having fired (the
\* record on cooldown) and to the record being removed.
PressLeadsToRemoval ==
    \A p \in Players :
        /\ HasRecord(p) ~> OnCooldown(p)
        /\ HasRecord(p) ~> ~HasRecord(p)

\* C21 amended: unless the player goes on logging presses for ever, a record
\* in the registry leads to the delayed check having fired and to the record
\* being removed; a record on cooldown is removed whatever anyone does.
PressLeadsToRemovalUnlessPressing ==
    \A p \in Players :
        /\ \/ []<><<LoggedPress(p)>>_vars
           \/ /\ HasRecord(p) ~> OnCooldown(p)
              /\ HasRecord(p) ~> ~HasRecord(p)
        /\ OnCooldown(p) ~> ~HasRecord(p)
PressLeadsToRemovalWitness ==
    /\ lastOp.op = "onCooldownExpire"
    /\ lastOp.player = "p1"
    /\ ~HasRecord("p1")
    /\ HasRecord("p2")
    /\ Len(sneakRegistry["p2"].sneak_log) = MaxLog
    /\ sneakRegistry["p2"].sneak_log[1] = -Horizon(config)
    /\ ~OnCooldown("p2")

====
